---- MODULE Spec2Model ----
(***************************************************************************)
(* Model of skydrop/src/fc/odometer.cpp: the flat-earth bearing and        *)
(* distance functions and the stateful odometer_step driver.               *)
(*                                                                         *)
(* Units of the model                                                      *)
(*   latitude, longitude : int32, degrees * GPS_MULT (as in the code)      *)
(*   altitude            : 1/AltScale metre (the code holds metres in a    *)
(*                         floating-point variable)                        *)
(*   groud_speed         : 1/100 knot (the code holds knots in a float)    *)
(*   distances, odometer : centimetres (as in the code)                    *)
(* Floating-point expressions are evaluated exactly (as rationals) and     *)
(* truncated where the code converts to an integer; the rounding of the    *)
(* individual floating-point operations is not modelled.                   *)
(* TLC integers are 32 bits wide, so products and squares are computed on  *)
(* multi-limb naturals (the Big* operators below).                         *)
(***************************************************************************)
EXTENDS Integers, Sequences, FiniteSets, TLC

(***************************************************************************)
(* Multi-limb naturals: little-endian sequences of limbs in 0..Base-1,     *)
(* without high zero limbs (zero is the empty sequence).                   *)
(***************************************************************************)
Base == 10000

Abs(x) == IF x > 0 THEN x ELSE -x

RECURSIVE ToBig(_)
ToBig(n) == IF n = 0 THEN << >> ELSE << n % Base >> \o ToBig(n \div Base)

RECURSIVE BigNorm(_)
BigNorm(a) ==
    IF a = << >> THEN << >>
    ELSE IF a[Len(a)] = 0 THEN BigNorm(SubSeq(a, 1, Len(a) - 1))
    ELSE a

Limb(a, i) == IF i <= Len(a) THEN a[i] ELSE 0

RECURSIVE BigAddC(_, _, _, _)
BigAddC(a, b, i, carry) ==
    IF i > Len(a) /\ i > Len(b)
    THEN IF carry = 0 THEN << >> ELSE << carry >>
    ELSE LET s == Limb(a, i) + Limb(b, i) + carry
         IN  << s % Base >> \o BigAddC(a, b, i + 1, s \div Base)

BigAdd(a, b) == BigAddC(a, b, 1, 0)

RECURSIVE BigMulSmallC(_, _, _, _)
BigMulSmallC(a, m, i, carry) ==
    IF i > Len(a)
    THEN ToBig(carry)
    ELSE LET s == a[i] * m + carry
         IN  << s % Base >> \o BigMulSmallC(a, m, i + 1, s \div Base)

\* a * m for a limb-sized m (0 <= m < Base)
BigMulSmall(a, m) == BigNorm(BigMulSmallC(a, m, 1, 0))

\* a * Base^k
BigShift(a, k) == IF a = << >> THEN << >> ELSE [i \in 1..k |-> 0] \o a

RECURSIVE BigMulFrom(_, _, _)
BigMulFrom(a, b, i) ==
    IF i > Len(b) THEN << >>
    ELSE BigAdd(BigShift(BigMulSmall(a, b[i]), i - 1), BigMulFrom(a, b, i + 1))

BigMul(a, b) == BigMulFrom(a, b, 1)

BigSq(a) == BigMul(a, a)

RECURSIVE BigLeqFrom(_, _, _)
BigLeqFrom(a, b, i) ==
    IF i = 0 THEN TRUE
    ELSE IF a[i] # b[i] THEN a[i] < b[i]
    ELSE BigLeqFrom(a, b, i - 1)

\* a <= b
BigLeq(a, b) ==
    IF Len(a) # Len(b) THEN Len(a) < Len(b) ELSE BigLeqFrom(a, b, Len(a))

\* The value of a multi-limb natural known to fit a TLC integer
RECURSIVE FromBigAt(_, _)
FromBigAt(a, i) == IF i > Len(a) THEN 0 ELSE a[i] + Base * FromBigAt(a, i + 1)

FromBig(a) == FromBigAt(a, 1)

\* |a - b| of two int32 values as a multi-limb natural (a - b itself may
\* not fit 32 bits)
BigAbsDiff(a, b) ==
    LET hi == IF a >= b THEN a ELSE b
        lo == IF a >= b THEN b ELSE a
    IN  IF (lo >= 0) \/ (hi < 0) THEN ToBig(hi - lo)
        ELSE BigAdd(ToBig(hi), BigAdd(ToBig(-(lo + 1)), ToBig(1)))

\* floor(a / m) for a limb-sized m (0 < m < Base), by long division from the
\* high limb
RECURSIVE BigDivSmallFrom(_, _, _, _)
BigDivSmallFrom(a, m, i, rem) ==
    IF i = 0 THEN << >>
    ELSE LET cur == rem * Base + a[i]
         IN  BigDivSmallFrom(a, m, i - 1, cur % m) \o << cur \div m >>

BigDivSmall(a, m) == BigNorm(BigDivSmallFrom(a, m, Len(a), 0))

\* floor(a / Base^k)
BigDropLimbs(a, k) == IF Len(a) <= k THEN << >> ELSE SubSeq(a, k + 1, Len(a))

(***************************************************************************)
(* Machine integers                                                        *)
(***************************************************************************)
Max32 == 2147483647
Min32 == -2147483647 - 1
UInt16Modulus == 65536

\* C integer division truncates toward zero
TruncDiv(a, b) == IF a >= 0 THEN a \div b ELSE -((-a) \div b)

\* Outcomes of an operation whose behaviour is undefined (signed overflow,
\* out-of-range float-to-integer conversion): "wrap" is the value reduced
\* modulo the width of the destination, "wide" the value of an evaluation
\* in a wider type (saturated where it must be stored).
UBOutcomes == {"wrap", "wide"}

\* (a + b) / 2 for int32 a, b, as line 50 evaluates it in int32
HalfSum32(ub, a, b) ==
    IF a > 0 /\ b > 0 /\ a > Max32 - b
    THEN IF ub = "wrap"
         THEN TruncDiv((a + Min32) + (b + Min32), 2)
         ELSE (a \div 2) + (b \div 2) + (IF a % 2 = 1 /\ b % 2 = 1 THEN 1 ELSE 0)
    ELSE IF a < 0 /\ b < 0 /\ a < Min32 - b
    THEN IF ub = "wrap"
         THEN TruncDiv((a - Min32) + (b - Min32), 2)
         ELSE -(((-a) \div 2) + ((-b) \div 2) + (IF a % 2 = 1 /\ b % 2 = 1 THEN 1 ELSE 0))
    ELSE TruncDiv(a + b, 2)

\* |a - b| for int32 a, b as a multi-limb natural, the subtraction done in
\* int32
AbsDiff32(ub, a, b) ==
    LET hi == IF a >= b THEN a ELSE b
        lo == IF a >= b THEN b ELSE a
    IN  IF (lo >= 0) \/ (hi < 0) \/ (hi <= Max32 + lo) \/ ub = "wide"
        THEN BigAbsDiff(a, b)
        ELSE BigAdd(ToBig(Max32 - hi), BigAdd(ToBig(1), ToBig(lo - Min32)))

(***************************************************************************)
(* Constants of fc.h / common.h                                            *)
(***************************************************************************)
\* fixed-point scale of latitude and longitude
GPS_MULT == 10000000
\* FC_MPS_TO_KNOTS = 1.94384449, as FC_MPS_TO_KNOTS_E8 / 10^8
FC_MPS_TO_KNOTS_E8 == 194384449
\* the model's ground speed unit: 1 / SpeedScale knot
SpeedScale == 100
\* 10 km/h in 1/SpeedScale knot
FC_ODO_MAX_SPEED_DIFF == 540
\* 1 km/h in 1/SpeedScale knot
FC_ODO_MIN_SPEED == 54
\* the model's altitude unit: 1 / AltScale metre
AltScale == 1000
\* width of one degree in cm (111.3 km)
CM_PER_DEGREE == 11130000

(***************************************************************************)
(* cos of a whole number of degrees, times CosScale                        *)
(***************************************************************************)
CosScale == 1000000

CosTable ==
    << 999848, 999391, 998630, 997564, 996195, 994522, 992546,
       990268, 987688, 984808, 981627, 978148, 974370, 970296, 965926,
       961262, 956305, 951057, 945519, 939693, 933580, 927184, 920505,
       913545, 906308, 898794, 891007, 882948, 874620, 866025, 857167,
       848048, 838671, 829038, 819152, 809017, 798636, 788011, 777146,
       766044, 754710, 743145, 731354, 719340, 707107, 694658, 681998,
       669131, 656059, 642788, 629320, 615661, 601815, 587785, 573576,
       559193, 544639, 529919, 515038, 500000, 484810, 469472, 453990,
       438371, 422618, 406737, 390731, 374607, 358368, 342020, 325568,
       309017, 292372, 275637, 258819, 241922, 224951, 207912, 190809,
       173648, 156434, 139173, 121869, 104528, 87156, 69756, 52336, 34899,
       17452, 0 >>

\* cos(deg degrees) * CosScale for a whole number of degrees
CosDeg(deg) ==
    LET r == Abs(deg) % 360
        d == IF r > 180 THEN 360 - r ELSE r
    IN  IF d = 0 THEN CosScale
        ELSE IF d <= 90 THEN CosTable[d]
        ELSE IF d = 180 THEN -CosScale
        ELSE -CosTable[180 - d]

\* sin(deg degrees) * CosScale for 0 <= deg <= 90
SinDeg(deg) == CosDeg(90 - deg)

(***************************************************************************)
(* sqrt                                                                    *)
(***************************************************************************)
\* the largest r in lo..hi with r * r <= q, for q below 2^31
RECURSIVE IntSqrtSearch(_, _, _)
IntSqrtSearch(lo, hi, q) ==
    IF lo = hi THEN lo
    ELSE LET mid == lo + ((hi - lo + 1) \div 2)
         IN  IF mid * mid <= q
             THEN IntSqrtSearch(mid, hi, q)
             ELSE IntSqrtSearch(lo, mid - 1, q)

\* the largest r in lo..hi with r * r <= q, for a multi-limb q
RECURSIVE BigSqrtSearch(_, _, _)
BigSqrtSearch(lo, hi, q) ==
    IF lo = hi THEN lo
    ELSE LET mid == lo + ((hi - lo) \div 2) + ((hi - lo) % 2)
         IN  IF BigLeq(BigSq(ToBig(mid)), q)
             THEN BigSqrtSearch(mid, hi, q)
             ELSE BigSqrtSearch(lo, mid - 1, q)

\* floor(sqrt(q)); the sampled coordinates keep it below 2^31
SqrtLimit == 46340
BigISqrt(q) ==
    IF Len(q) <= 2 \/ (Len(q) = 3 /\ q[3] < 20)
    THEN IntSqrtSearch(0, SqrtLimit, FromBig(q))
    ELSE IF Len(q) <= 4
    THEN BigSqrtSearch(4 * Base, Base * Base, q)
    ELSE BigSqrtSearch(Base * Base, Max32, q)

\* trunc(sqrt(num / (m * Base^k))) for a limb-sized m: the square root of a
\* quotient truncates to the square root of the truncated quotient
TruncSqrt(num, m, k) == BigISqrt(BigDivSmall(BigDropLimbs(num, k), m))

(***************************************************************************)
(* gps_bearing (lines 22-28)                                               *)
(***************************************************************************)
\* floor of atan(y / x) in degrees for naturals y, x (multi-limb), not both
\* zero: the largest k in 0..90 with y * cos(k) >= x * sin(k)
RECURSIVE FloorAtanDegSearch(_, _, _, _)
FloorAtanDegSearch(y, x, lo, hi) ==
    IF lo = hi THEN lo
    ELSE LET mid == lo + ((hi - lo + 1) \div 2)
         IN  IF BigLeq(BigMul(x, ToBig(SinDeg(mid))), BigMul(y, ToBig(CosDeg(mid))))
             THEN FloorAtanDegSearch(y, x, mid, hi)
             ELSE FloorAtanDegSearch(y, x, lo, mid - 1)

FloorAtanDeg(y, x) == FloorAtanDegSearch(y, x, 0, 90)

\* ceiling of the same angle: it is a whole number of degrees only at 0, 45
\* and 90 degrees (tan of any other whole degree is irrational)
CeilAtanDeg(y, x) ==
    IF y = << >> \/ x = << >> \/ y = x
    THEN FloorAtanDeg(y, x)
    ELSE FloorAtanDeg(y, x) + 1

\* (int16_t)to_degrees(atan2(y, x)): the angle of the vector with ordinate y
\* and abscissa x, in degrees, truncated toward zero.  ySign, xSign are the
\* signs (-1, 0, 1) and yMag, xMag the magnitudes of the two arguments.
Atan2DegTrunc(ySign, yMag, xSign, xMag) ==
    IF ySign = 0 /\ xSign = 0 THEN 0
    ELSE IF xSign >= 0
    THEN IF ySign >= 0 THEN FloorAtanDeg(yMag, xMag)
                       ELSE -FloorAtanDeg(yMag, xMag)
    ELSE IF ySign >= 0 THEN 180 - CeilAtanDeg(yMag, xMag)
                       ELSE -(180 - CeilAtanDeg(yMag, xMag))

Sign(a, b) == IF a > b THEN 1 ELSE IF a < b THEN -1 ELSE 0

\* mutant of gps_bearing: the angle is not normalised by + 360 (C's % keeps
\* the sign of a negative angle)
Mut_gps_bearing_NoAdd360(lat1, lon1, lat2, lon2) ==
    Atan2DegTrunc(Sign(lon1, lon2), BigAbsDiff(lon1, lon2),
                  Sign(lat1, lat2), BigAbsDiff(lat1, lat2))

\* mutant of gps_bearing: the angle is measured from the east axis,
\* atan2(dY, dX), and turned into a compass angle by 90 - angle
Mut_gps_bearing_FromEastAxis(lat1, lon1, lat2, lon2) ==
    (90 - Atan2DegTrunc(Sign(lat1, lat2), BigAbsDiff(lat1, lat2),
                        Sign(lon1, lon2), BigAbsDiff(lon1, lon2)) + 360) % 360

\* dX, dY are differences of doubles (no overflow); dividing both by the
\* positive GPS_MULT changes neither sign nor their ratio
gps_bearing(lat1, lon1, lat2, lon2) ==
    LET dXSign == Sign(lon1, lon2)
        dXMag  == BigAbsDiff(lon1, lon2)
        dYSign == Sign(lat1, lat2)
        dYMag  == BigAbsDiff(lat1, lat2)
    IN  (Atan2DegTrunc(dXSign, dXMag, dYSign, dYMag) + 360) % 360

(***************************************************************************)
(* gps_distance_2d (lines 42-57)                                           *)
(***************************************************************************)
\* line 50: (lat1 + lat2) / 2 / GPS_MULT in integer arithmetic: the mean
\* latitude in whole degrees
MeanLatDeg(ub, lat1, lat2) == TruncDiv(HalfSum32(ub, lat1, lat2), GPS_MULT)

\* mutant of gps_distance_2d: the width of a degree of longitude is taken at
\* the latitude of point 1 instead of the mean latitude
Mut_gps_distance_2d_CosLat1(ub, lat1, lon1, lat2, lon2) ==
    LET c    == ToBig(Abs(CosDeg(TruncDiv(lat1, GPS_MULT))))
        dlon == AbsDiff32(ub, lon1, lon2)
        dlat == AbsDiff32(ub, lat1, lat2)
        num  == BigMul(BigSq(ToBig(CM_PER_DEGREE)),
                       BigAdd(BigSq(BigMul(c, dlon)),
                              BigSq(BigMul(ToBig(CosScale), dlat))))
    IN  TruncSqrt(num, 100, 6)

\* mutant of gps_distance_2d: dy from abs(lat1 + lat2)
Mut_gps_distance_2d_LatSum(ub, lat1, lon1, lat2, lon2) ==
    LET c    == ToBig(Abs(CosDeg(MeanLatDeg(ub, lat1, lat2))))
        dlon == AbsDiff32(ub, lon1, lon2)
        dlat == BigAbsDiff(lat1, -lat2)
        num  == BigMul(BigSq(ToBig(CM_PER_DEGREE)),
                       BigAdd(BigSq(BigMul(c, dlon)),
                              BigSq(BigMul(ToBig(CosScale), dlat))))
    IN  TruncSqrt(num, 100, 6)

\* dx = cos(lat) * CM_PER_DEGREE * |lon1 - lon2| / GPS_MULT
\* dy =            CM_PER_DEGREE * |lat1 - lat2| / GPS_MULT
\* (uint32_t)sqrt(dx^2 + dy^2) is the largest r with
\*   r^2 * (CosScale * GPS_MULT)^2
\*     <= CM_PER_DEGREE^2 * ((cos*CosScale * |dlon|)^2 + (CosScale * |dlat|)^2)
\* where (CosScale * GPS_MULT)^2 = 10^26 = 100 * Base^6
gps_distance_2d(ub, lat1, lon1, lat2, lon2) ==
    LET c    == ToBig(Abs(CosDeg(MeanLatDeg(ub, lat1, lat2))))
        dlon == AbsDiff32(ub, lon1, lon2)
        dlat == AbsDiff32(ub, lat1, lat2)
        num  == BigMul(BigSq(ToBig(CM_PER_DEGREE)),
                       BigAdd(BigSq(BigMul(c, dlon)),
                              BigSq(BigMul(ToBig(CosScale), dlat))))
    IN  TruncSqrt(num, 100, 6)

(***************************************************************************)
(* gps_distance_3d (lines 73-84)                                           *)
(***************************************************************************)
\* mutant of gps_distance_3d: an integer abs, which takes the altitude
\* difference in whole metres
Mut_gps_distance_3d_WholeMetres(ub, lat1, lon1, alt1, lat2, lon2, alt2) ==
    LET dx  == ToBig(gps_distance_2d(ub, lat1, lon1, lat1, lon2))
        dy  == ToBig(gps_distance_2d(ub, lat1, lon1, lat2, lon1))
        da  == BigMulSmall(ToBig(Abs(TruncDiv(alt1 - alt2, AltScale)) * AltScale), 100)
        den == BigSq(ToBig(AltScale))
        num == BigAdd(BigMul(BigAdd(BigSq(dx), BigSq(dy)), den), BigSq(da))
    IN  TruncSqrt(num, 100, 1)

\* mutant of gps_distance_3d: the horizontal part is one 2D distance between
\* the two points
Mut_gps_distance_3d_Single2d(ub, lat1, lon1, alt1, lat2, lon2, alt2) ==
    LET dh  == ToBig(gps_distance_2d(ub, lat1, lon1, lat2, lon2))
        da  == BigMulSmall(BigAbsDiff(alt1, alt2), 100)
        den == BigSq(ToBig(AltScale))
        num == BigAdd(BigMul(BigSq(dh), den), BigSq(da))
    IN  TruncSqrt(num, 100, 1)

\* da = abs(alt1 - alt2) * 100 cm, altitudes in 1/AltScale metre
\* (uint32_t)sqrt(dx^2 + dy^2 + da^2) is the largest r with
\*   r^2 * AltScale^2 <= (dx^2 + dy^2) * AltScale^2 + (|alt1 - alt2| * 100)^2
\* where AltScale^2 = 10^6 = 100 * Base
gps_distance_3d(ub, lat1, lon1, alt1, lat2, lon2, alt2) ==
    LET dx  == ToBig(gps_distance_2d(ub, lat1, lon1, lat1, lon2))
        dy  == ToBig(gps_distance_2d(ub, lat1, lon1, lat2, lon1))
        da  == BigMulSmall(BigAbsDiff(alt1, alt2), 100)
        den == BigSq(ToBig(AltScale))
        num == BigAdd(BigMul(BigAdd(BigSq(dx), BigSq(dy)), den), BigSq(da))
    IN  TruncSqrt(num, 100, 1)

(***************************************************************************)
(* odometer_step (lines 90-127) and its collaborators                      *)
(***************************************************************************)
NO_LAT_DATA == 2147483647

\* bits of fc.gps_data.new_sample; the word is modelled as the set of its
\* set bits.  FC_GPS_NEW_SAMPLE_OTHER stands for the bits of the other
\* consumers of a GPS sample.
FC_GPS_NEW_SAMPLE_ODO == "ODO"
FC_GPS_NEW_SAMPLE_OTHER == "OTHER"
NewSampleBits == {FC_GPS_NEW_SAMPLE_ODO, FC_GPS_NEW_SAMPLE_OTHER}

\* number of GPS samples the collaborator delivers in a run
MaxRaised == 3
\* largest odometer total of a run, in cm
MaxOdometer == 2000000000

\* GPS samples the collaborator delivers (fc.gps_data):
\*   a fix;
\*   a fix 10 m north of it, whose reported speed matches the speed
\*     calculated from the first fix (19 knots) and differs by exactly
\*     FC_ODO_MAX_SPEED_DIFF from the one calculated from the fourth (26);
\*   a fix 2 m north, reported at exactly FC_ODO_MIN_SPEED;
\*   a fix displaced in longitude and altitude;
\*   an outlier 33.7 km away, reported at 3 knots;
\*   a fix whose latitude is INT32_MAX.
Sample(lat, lon, alt, gs) ==
    [latitude |-> lat, longtitude |-> lon, altitude |-> alt, groud_speed |-> gs]

Samples ==
    { Sample(470000000, 80000000, 1000000, 1940),
      Sample(470000898, 80000000, 1000000, 2060),
      Sample(470000200, 80000000, 1000000, 54),
      Sample(470000000, 80001000, 1005500, 1800),
      Sample(473029350, 80000000, 1000000, 300),
      Sample(NO_LAT_DATA, 80000000, 1000000, 0) }

\* home references (config.home): 1 km north of the first fix, and a point
\* south-west of it
Homes ==
    { [lat |-> 470089847, lon |-> 80000000],
      [lat |-> 469990000, lon |-> 79980000] }

VARIABLES
    new_sample,     \* fc.gps_data.new_sample
    gps_data,       \* fc.gps_data: latitude, longtitude, altitude, groud_speed
    home_valid,     \* fc.flight.home_valid
    home,           \* config.home
    home_bearing,   \* fc.flight.home_bearing
    home_distance,  \* fc.flight.home_distance
    odometer,       \* fc.odometer
    last_lat,       \* static last_lat
    last_lon,       \* static last_lon
    last_alt,       \* static last_alt
    raised,         \* history: number of times the ODO flag was raised
    consumed,       \* history: number of steps that processed a sample
    last_call,      \* history: what the latest odometer_step invocation did
    geo             \* a direct call of the three geometry functions: its
                    \* arguments, the build's resolution of undefined
                    \* behaviour, and the values returned so far

step_vars == << new_sample, gps_data, home_valid, home, home_bearing, home_distance,
                odometer, last_lat, last_lon, last_alt, raised, consumed, last_call >>

vars == << step_vars, geo >>

\* fc.flight.home_distance = cm / 100000.0: kilometres, held as the whole
\* kilometres and the remaining 1/100000 km
KmFromCm(cm) == [km |-> cm \div 100000, e5 |-> cm % 100000]

\* mutant of FlagSet: tests the whole word instead of the ODO bit
Mut_FlagSet_AnyBit(ns) == ns # {}

\* line 98
FlagSet(ns) == FC_GPS_NEW_SAMPLE_ODO \in ns

\* mutant of ClearFlag: the whole word is cleared
Mut_ClearFlag_ClearsWord(ns) == {}

\* mutant of ClearFlag: the flag is left set
Mut_ClearFlag_NotCleared(ns) == ns

\* line 99
ClearFlag(ns) == ns \ {FC_GPS_NEW_SAMPLE_ODO}

\* mutant of HomePublished: home is published whether valid or not
Mut_HomePublished_Always(hv) == TRUE

\* line 103
HomePublished(hv) == hv

\* mutant of HomeBearing: the arguments in the order current, home
Mut_HomeBearing_Swapped(h, g) == gps_bearing(g.latitude, g.longtitude, h.lat, h.lon)

\* line 105
HomeBearing(h, g) == gps_bearing(h.lat, h.lon, g.latitude, g.longtitude)

\* line 106
HomeDistance(ub, h, g) ==
    KmFromCm(gps_distance_2d(ub, g.latitude, g.longtitude, h.lat, h.lon))

\* mutant of HasPrevious: the comparison inverted
Mut_HasPrevious_Inverted(lat) == lat = NO_LAT_DATA

\* line 110
HasPrevious(lat) == lat # NO_LAT_DATA

\* mutant of StepDistance: the altitude is left out
Mut_StepDistance_NoAltitude(ub, plat, plon, palt, g) ==
    gps_distance_2d(ub, plat, plon, g.latitude, g.longtitude)

\* line 112
StepDistance(ub, plat, plon, palt, g) ==
    gps_distance_3d(ub, plat, plon, palt, g.latitude, g.longtitude, g.altitude)

\* line 115: uint16_t calc_speed = (v * FC_MPS_TO_KNOTS) / 100.  The
\* conversion of a value above 65535 to uint16_t is undefined.
TrueCalcSpeed(v) ==
    FromBig(BigDropLimbs(BigDivSmall(BigMul(ToBig(v), ToBig(FC_MPS_TO_KNOTS_E8)), 100), 2))

calc_speed(ub, v) ==
    LET t == TrueCalcSpeed(v)
    IN  IF t < UInt16Modulus THEN t
        ELSE IF ub = "wrap" THEN t % UInt16Modulus
        ELSE UInt16Modulus - 1

\* mutant of FilterAccepts: the two comparisons not strict
Mut_FilterAccepts_NotStrict(cs, gs) ==
    /\ Abs(cs * SpeedScale - gs) <= FC_ODO_MAX_SPEED_DIFF
    /\ gs >= FC_ODO_MIN_SPEED

\* line 119 (cs in knots, gs in 1/SpeedScale knot)
FilterAccepts(cs, gs) ==
    /\ Abs(cs * SpeedScale - gs) < FC_ODO_MAX_SPEED_DIFF
    /\ gs > FC_ODO_MIN_SPEED

\* mutant of AddToOdometer: assignment instead of accumulation
Mut_AddToOdometer_Assign(odo, v) == v

\* line 120
AddToOdometer(odo, v) == odo + v

\* mutant of SavedPosition: the position is saved in the else branch of the
\* previous-point test, so on the first step only
Mut_SavedPosition_FirstOnly(g) ==
    IF last_lat = NO_LAT_DATA
    THEN << g.latitude, g.longtitude, g.altitude >>
    ELSE << last_lat, last_lon, last_alt >>

\* lines 124-126: the new values of last_lat, last_lon, last_alt
SavedPosition(g) == << g.latitude, g.longtitude, g.altitude >>

(***************************************************************************)
(* The values of the three geometric expressions of odometer_step over the *)
(* sampled inputs, evaluated once; the actions look them up.               *)
(***************************************************************************)
\* the values last_lat, last_lon, last_alt can hold: the initial ones and the
\* position of any sample
PrevPositions ==
    { << NO_LAT_DATA, 0, 0 >> } \cup { << s.latitude, s.longtitude, s.altitude >> : s \in Samples }

StepDistanceValues ==
    { << ub, p, s, StepDistance(ub, p[1], p[2], p[3], s) >> :
        ub \in UBOutcomes, p \in PrevPositions, s \in Samples }

\* the values config.home can hold: the initial one and any home set
HomeRefs == { [lat |-> 0, lon |-> 0] } \cup Homes

HomeBearingValues ==
    { << h, s, HomeBearing(h, s) >> : h \in HomeRefs, s \in Samples }

HomeDistanceValues ==
    { << ub, h, s, HomeDistance(ub, h, s) >> : ub \in UBOutcomes, h \in HomeRefs, s \in Samples }

StepDistanceOf(ub, plat, plon, palt, g) ==
    (CHOOSE e \in StepDistanceValues :
        e[1] = ub /\ e[2] = << plat, plon, palt >> /\ e[3] = g)[4]

HomeBearingOf(h, g) ==
    (CHOOSE e \in HomeBearingValues : e[1] = h /\ e[2] = g)[3]

HomeDistanceOf(ub, h, g) ==
    (CHOOSE e \in HomeDistanceValues : e[1] = ub /\ e[2] = h /\ e[3] = g)[4]

\* history of the latest invocation: its kind ("none" before the first one,
\* "idle" when the flag was not set, else "first", "accepted" or "rejected"),
\* and, for the latest invocation that consumed a sample, the sample, the
\* previous position it was measured from, the distance and calculated
\* speed, and whether home was valid
NoCall ==
    [kind |-> "none", sample |-> Sample(0, 0, 0, 0), from |-> << NO_LAT_DATA, 0, 0 >>,
     v |-> 0, calc |-> 0, home |-> FALSE]

\* no direct call of the geometry functions
NoGeoCall == [kind |-> "none"]

StepInit ==
    /\ new_sample = {}
    /\ gps_data = Sample(0, 0, 0, 0)
    /\ home_valid = FALSE
    /\ home = [lat |-> 0, lon |-> 0]
    /\ home_bearing = 0
    /\ home_distance = KmFromCm(0)
    /\ odometer = 0
    /\ last_lat = NO_LAT_DATA
    /\ last_lon = 0
    /\ last_alt = 0
    /\ raised = 0
    /\ consumed = 0
    /\ last_call = NoCall

Init == StepInit /\ geo = NoGeoCall

\* The GPS collaborator stores a new sample and raises the flags of all its
\* consumers
gps_new_sample(s) ==
    /\ raised < MaxRaised
    /\ gps_data' = s
    /\ new_sample' = new_sample \cup NewSampleBits
    /\ raised' = raised + 1
    /\ UNCHANGED geo
    /\ UNCHANGED << home_valid, home, home_bearing, home_distance, odometer,
                    last_lat, last_lon, last_alt, consumed, last_call >>

\* Another consumer of the sample clears its own bit
other_consumer ==
    /\ FC_GPS_NEW_SAMPLE_OTHER \in new_sample
    /\ new_sample' = new_sample \ {FC_GPS_NEW_SAMPLE_OTHER}
    /\ UNCHANGED geo
    /\ UNCHANGED << gps_data, home_valid, home, home_bearing, home_distance,
                    odometer, last_lat, last_lon, last_alt, raised, consumed,
                    last_call >>

\* The configuration collaborator sets or invalidates the home reference
home_set(h) ==
    /\ ~home_valid
    /\ home' = h
    /\ home_valid' = TRUE
    /\ UNCHANGED geo
    /\ UNCHANGED << new_sample, gps_data, home_bearing, home_distance, odometer,
                    last_lat, last_lon, last_alt, raised, consumed, last_call >>

home_clear ==
    /\ home_valid
    /\ home_valid' = FALSE
    /\ UNCHANGED geo
    /\ UNCHANGED << new_sample, gps_data, home, home_bearing, home_distance,
                    odometer, last_lat, last_lon, last_alt, raised, consumed,
                    last_call >>

\* lines 98-101: the flag is not set, return
odometer_step_idle ==
    /\ ~FlagSet(new_sample)
    /\ last_call' = [last_call EXCEPT !.kind = "idle"]
    /\ UNCHANGED geo
    /\ UNCHANGED << new_sample, gps_data, home_valid, home, home_bearing,
                    home_distance, odometer, last_lat, last_lon, last_alt,
                    raised, consumed >>

\* mutant of odometer_step_sample: home is invalidated once it has been
\* looked at
Mut_odometer_step_sample_InvalidatesHome(ub) ==
    LET prev == HasPrevious(last_lat)
        v    == IF prev
                THEN StepDistanceOf(ub, last_lat, last_lon, last_alt, gps_data)
                ELSE 0
        cs   == calc_speed(ub, v)
        acc  == prev /\ FilterAccepts(cs, gps_data.groud_speed)
    IN  /\ FlagSet(new_sample)
        /\ acc => v <= MaxOdometer - odometer
        /\ new_sample' = ClearFlag(new_sample)
        /\ IF HomePublished(home_valid)
           THEN /\ home_bearing' = HomeBearingOf(home, gps_data)
                /\ home_distance' = HomeDistanceOf(ub, home, gps_data)
           ELSE UNCHANGED << home_bearing, home_distance >>
        /\ odometer' = IF acc THEN AddToOdometer(odometer, v) ELSE odometer
        /\ last_lat' = SavedPosition(gps_data)[1]
        /\ last_lon' = SavedPosition(gps_data)[2]
        /\ last_alt' = SavedPosition(gps_data)[3]
        /\ consumed' = consumed + 1
        /\ last_call' = [kind   |-> IF ~prev THEN "first"
                                    ELSE IF acc THEN "accepted" ELSE "rejected",
                         sample |-> gps_data,
                         from   |-> << last_lat, last_lon, last_alt >>,
                         v      |-> v,
                         calc   |-> cs,
                         home   |-> home_valid]
        /\ home_valid' = FALSE
        /\ UNCHANGED << gps_data, home, raised >>
        /\ UNCHANGED geo

\* lines 98-126: the flag is set
odometer_step_sample(ub) ==
    LET prev == HasPrevious(last_lat)
        v    == IF prev
                THEN StepDistanceOf(ub, last_lat, last_lon, last_alt, gps_data)
                ELSE 0
        cs   == calc_speed(ub, v)
        acc  == prev /\ FilterAccepts(cs, gps_data.groud_speed)
    IN  /\ FlagSet(new_sample)
        /\ acc => v <= MaxOdometer - odometer
        /\ new_sample' = ClearFlag(new_sample)
        /\ IF HomePublished(home_valid)
           THEN /\ home_bearing' = HomeBearingOf(home, gps_data)
                /\ home_distance' = HomeDistanceOf(ub, home, gps_data)
           ELSE UNCHANGED << home_bearing, home_distance >>
        /\ odometer' = IF acc THEN AddToOdometer(odometer, v) ELSE odometer
        /\ last_lat' = SavedPosition(gps_data)[1]
        /\ last_lon' = SavedPosition(gps_data)[2]
        /\ last_alt' = SavedPosition(gps_data)[3]
        /\ consumed' = consumed + 1
        /\ last_call' = [kind   |-> IF ~prev THEN "first"
                                    ELSE IF acc THEN "accepted" ELSE "rejected",
                         sample |-> gps_data,
                         from   |-> << last_lat, last_lon, last_alt >>,
                         v      |-> v,
                         calc   |-> cs,
                         home   |-> home_valid]
        /\ UNCHANGED << gps_data, home_valid, home, raised >>
        /\ UNCHANGED geo

odometer_step == odometer_step_idle \/ \E ub \in UBOutcomes : odometer_step_sample(ub)

Next ==
    \/ \E s \in Samples : gps_new_sample(s)
    \/ other_consumer
    \/ \E h \in Homes : home_set(h)
    \/ home_clear
    \/ odometer_step

Spec == Init /\ [][Next]_vars

(***************************************************************************)
(* Direct calls of gps_bearing, gps_distance_2d and gps_distance_3d on a   *)
(* pair of points                                                          *)
(***************************************************************************)
GeoPoint(lat, lon, alt) == [lat |-> lat, lon |-> lon, alt |-> alt]

\* the points of the valid range the functions are called on:
\*   a fix; a point due north of it; a point due east of it;
\*   two points above the fix, a fraction of a metre and some metres higher;
\*   a point of the southern and western hemispheres;
\*   two points whose longitudes differ by more than int32 holds;
\*   the north pole.
\* Every pair of them is less than 2^31 cm apart, however the build
\* resolves the overflow of the longitude difference.
GeoPoints ==
    { GeoPoint(470000000, 80000000, 1000000),
      GeoPoint(470089847, 80000000, 1000000),
      GeoPoint(470000000, 80001000, 1000000),
      GeoPoint(470000000, 80000000, 1000507),
      GeoPoint(470000000, 80000000, 1005500),
      GeoPoint(-337654321, -512345678, 0),
      GeoPoint(700000000, 1100000000, 8848000),
      GeoPoint(720000000, -1100000000, -100000),
      GeoPoint(900000000, 0, 0) }

\* a point outside the valid range, whose doubled latitude exceeds int32
GeoPointsOutOfRange == { GeoPoint(2000000000, 2000000000, 0) }

\* the pairs of points the functions are called on
GeoPairs ==
    (GeoPoints \X GeoPoints) \cup { << q, q >> : q \in GeoPointsOutOfRange }

\* the functions of which geo holds the returned value
GeoFunctions == {"gps_bearing", "gps_distance_2d", "gps_distance_2d_swapped", "gps_distance_3d"}

\* the arguments are chosen, nothing is called yet; the build resolves
\* undefined behaviour one way for all calls
GeoInit ==
    /\ StepInit
    /\ \E pair \in GeoPairs, ub \in UBOutcomes :
          geo = [kind |-> "call", p1 |-> pair[1], p2 |-> pair[2], ub |-> ub, returned |-> {},
                 bearing |-> 0, d2 |-> 0, d2_swapped |-> 0, d3 |-> 0]

\* lines 22-28, called on (p1, p2)
call_gps_bearing ==
    /\ "gps_bearing" \notin geo.returned
    /\ geo' = [geo EXCEPT !.returned = @ \cup {"gps_bearing"},
                          !.bearing = gps_bearing(geo.p1.lat, geo.p1.lon,
                                                  geo.p2.lat, geo.p2.lon)]
    /\ UNCHANGED step_vars

\* lines 42-57, called on (p1, p2)
call_gps_distance_2d ==
    /\ "gps_distance_2d" \notin geo.returned
    /\ geo' = [geo EXCEPT !.returned = @ \cup {"gps_distance_2d"},
                          !.d2 = gps_distance_2d(geo.ub, geo.p1.lat, geo.p1.lon,
                                                 geo.p2.lat, geo.p2.lon)]
    /\ UNCHANGED step_vars

\* lines 42-57, called on (p2, p1)
call_gps_distance_2d_swapped ==
    /\ "gps_distance_2d_swapped" \notin geo.returned
    /\ geo' = [geo EXCEPT !.returned = @ \cup {"gps_distance_2d_swapped"},
                          !.d2_swapped = gps_distance_2d(geo.ub, geo.p2.lat, geo.p2.lon,
                                                         geo.p1.lat, geo.p1.lon)]
    /\ UNCHANGED step_vars

\* lines 73-84, called on (p1, p2)
call_gps_distance_3d ==
    /\ "gps_distance_3d" \notin geo.returned
    /\ geo' = [geo EXCEPT !.returned = @ \cup {"gps_distance_3d"},
                          !.d3 = gps_distance_3d(geo.ub, geo.p1.lat, geo.p1.lon, geo.p1.alt,
                                                 geo.p2.lat, geo.p2.lon, geo.p2.alt)]
    /\ UNCHANGED step_vars

GeoNext ==
    \/ call_gps_bearing
    \/ call_gps_distance_2d
    \/ call_gps_distance_2d_swapped
    \/ call_gps_distance_3d

GeoSpec == GeoInit /\ [][GeoNext]_vars

(***************************************************************************)
(* Properties                                                              *)
(***************************************************************************)
\* a transition in which odometer_step processes a sample
Consumes == consumed' = consumed + 1

\* gps_distance_3d between every possible previous position and every
\* sample, evaluated once
Distance3dValues ==
    { << ub, p, s, gps_distance_3d(ub, p[1], p[2], p[3],
                                   s.latitude, s.longtitude, s.altitude) >> :
        ub \in UBOutcomes, p \in PrevPositions, s \in Samples }

\* the 3D distance from the stored previous position to the current sample
DistanceFromLast(ub) ==
    (CHOOSE e \in Distance3dValues :
        e[1] = ub /\ e[2] = << last_lat, last_lon, last_alt >> /\ e[3] = gps_data)[4]

\* C1: the odometer never decreases, whatever samples, speeds and flags the
\* steps see
C1_OdometerMonotonic == [][odometer' >= odometer]_vars

\* an accepted step has added a positive distance to a positive total
C1_Witness ==
    /\ last_call.kind = "accepted"
    /\ last_call.v > 0
    /\ odometer > last_call.v

\* C2: the odometer changes only in a step that finds a previous position,
\* a speed difference strictly below FC_ODO_MAX_SPEED_DIFF and a reported
\* speed strictly above FC_ODO_MIN_SPEED (the calculated speed being the
\* value the code holds in calc_speed); it is unchanged on the first
\* consumed sample, at a reported speed of exactly FC_ODO_MIN_SPEED and at a
\* speed difference of exactly FC_ODO_MAX_SPEED_DIFF
C2_ChangesOnlyIfFilterPasses ==
    [][ /\ odometer' # odometer =>
             /\ last_lat # NO_LAT_DATA
             /\ gps_data.groud_speed > FC_ODO_MIN_SPEED
             /\ \E ub \in UBOutcomes :
                   Abs(calc_speed(ub, DistanceFromLast(ub)) * SpeedScale
                       - gps_data.groud_speed) < FC_ODO_MAX_SPEED_DIFF
        /\ (Consumes /\ last_lat = NO_LAT_DATA) => odometer' = odometer
        /\ (Consumes /\ gps_data.groud_speed = FC_ODO_MIN_SPEED) => odometer' = odometer
        /\ (Consumes /\ \A ub \in UBOutcomes :
                Abs(calc_speed(ub, DistanceFromLast(ub)) * SpeedScale
                    - gps_data.groud_speed) = FC_ODO_MAX_SPEED_DIFF)
             => odometer' = odometer
      ]_vars

\* a step has rejected a positive distance whose speed difference was
\* exactly FC_ODO_MAX_SPEED_DIFF, at a reported speed above the minimum
C2_Witness ==
    /\ last_call.kind = "rejected"
    /\ last_call.v > 0
    /\ last_call.sample.groud_speed > FC_ODO_MIN_SPEED
    /\ Abs(last_call.calc * SpeedScale - last_call.sample.groud_speed)
         = FC_ODO_MAX_SPEED_DIFF

\* C3: a step that consumes a sample in the Tracking state and whose filter
\* accepts adds exactly gps_distance_3d(previous position, sample) to the
\* odometer; one whose filter rejects adds nothing
C3_AddsExactly3dDistance ==
    [][ (Consumes /\ last_lat # NO_LAT_DATA) =>
          \E ub \in UBOutcomes :
             IF FilterAccepts(calc_speed(ub, DistanceFromLast(ub)), gps_data.groud_speed)
             THEN odometer' = odometer + DistanceFromLast(ub)
             ELSE odometer' = odometer
      ]_vars

\* an accepted step has added a distance with a vertical part
C3_Witness ==
    /\ last_call.kind = "accepted"
    /\ last_call.v > 0
    /\ last_call.from[3] # last_call.sample.altitude
    /\ last_call.from[2] # last_call.sample.longtitude

\* C4: every step that consumes a sample stores that sample as the previous
\* position, with or without a prior position, accepted or rejected
C4_PositionAlwaysSaved ==
    [][ Consumes =>
          /\ last_lat' = gps_data.latitude
          /\ last_lon' = gps_data.longtitude
          /\ last_alt' = gps_data.altitude
      ]_vars

\* a rejected step in the Tracking state has stored its sample, which
\* differs from the position it was measured from
C4_Witness ==
    /\ last_call.kind = "rejected"
    /\ last_call.from # << last_lat, last_lon, last_alt >>
    /\ << last_lat, last_lon, last_alt >>
         = << last_call.sample.latitude, last_call.sample.longtitude,
              last_call.sample.altitude >>

\* C5: after any odometer_step invocation the ODO flag is clear, and the
\* steps that processed a sample never outnumber the raisings of the flag
C5_AtMostOneStepPerRaisedFlag ==
    /\ consumed <= raised
    /\ [][ /\ odometer_step => FC_GPS_NEW_SAMPLE_ODO \notin new_sample'
           /\ consumed' <= raised'
         ]_vars

\* the flag was raised twice before one step processed a sample
C5_Witness ==
    /\ raised >= 2
    /\ consumed = 1
    /\ FC_GPS_NEW_SAMPLE_ODO \notin new_sample
    /\ last_call.kind # "idle"

\* C6: an invocation that finds the ODO flag clear changes nothing
C6_IdleStepChangesNothing ==
    [][ (odometer_step /\ FC_GPS_NEW_SAMPLE_ODO \notin new_sample) =>
          UNCHANGED << odometer, home_bearing, home_distance,
                       last_lat, last_lon, last_alt, new_sample >>
      ]_vars

\* an invocation found the flag clear while another consumer's bit was set,
\* after the odometer had counted a distance
C6_Witness ==
    /\ last_call.kind = "idle"
    /\ new_sample = {FC_GPS_NEW_SAMPLE_OTHER}
    /\ odometer > 0

\* C7 as stated: once a sample has been consumed, the state is Tracking
\* (a previous position is recorded), whatever the latitudes of the samples
C7_TrackingForever == consumed > 0 => last_lat # NO_LAT_DATA

\* C7 amended: before the first consumed sample the state is Uninitialized;
\* after a consumed sample whose latitude is not NO_LAT_DATA the state is
\* Tracking, and the next consuming step runs the distance and filter logic
C7_TrackingUnlessSentinelLatitude ==
    /\ consumed = 0 => last_lat = NO_LAT_DATA
    /\ [][ /\ (Consumes /\ gps_data.latitude # NO_LAT_DATA) => last_lat' # NO_LAT_DATA
           /\ (Consumes /\ consumed > 0 /\ last_call.sample.latitude # NO_LAT_DATA) =>
                 /\ last_lat # NO_LAT_DATA
                 /\ last_call'.kind \in {"accepted", "rejected"}
         ]_vars

\* a third consecutive sample was consumed in the Tracking state
C7_Witness ==
    /\ consumed = 3
    /\ last_call.kind \in {"accepted", "rejected"}
    /\ last_call.from[1] # NO_LAT_DATA
    /\ last_lat # NO_LAT_DATA

\* the exact calculated speed v * FC_MPS_TO_KNOTS / 100 differs from the
\* reported speed gs (1/SpeedScale knot) by FC_ODO_MAX_SPEED_DIFF or more:
\*   |v * FC_MPS_TO_KNOTS_E8 - gs * 10^8| >= FC_ODO_MAX_SPEED_DIFF * 10^8
TrueSpeedDiffers(v, gs) ==
    LET calc == BigMul(ToBig(v), ToBig(FC_MPS_TO_KNOTS_E8))
        rep  == BigShift(ToBig(gs), 2)
        lim  == BigShift(ToBig(FC_ODO_MAX_SPEED_DIFF), 2)
    IN  \/ BigLeq(BigAdd(rep, lim), calc)
        \/ BigLeq(BigAdd(calc, lim), rep)

\* C8: a step whose exactly calculated speed differs from the reported speed
\* by FC_ODO_MAX_SPEED_DIFF or more does not add its distance
C8_OutlierNotAdded ==
    [][ (Consumes /\ last_lat # NO_LAT_DATA
           /\ \A ub \in UBOutcomes :
                 TrueSpeedDiffers(DistanceFromLast(ub), gps_data.groud_speed))
          => odometer' = odometer
      ]_vars

\* gps_bearing and gps_distance_2d between every home and every sample,
\* evaluated once
HomeBearingExpected ==
    { << h, s, gps_bearing(h.lat, h.lon, s.latitude, s.longtitude) >> :
        h \in Homes, s \in Samples }

HomeDistanceExpected ==
    { << ub, h, s, gps_distance_2d(ub, s.latitude, s.longtitude, h.lat, h.lon) >> :
        ub \in UBOutcomes, h \in Homes, s \in Samples }

\* C9: every step that consumes a sample while home is valid publishes
\* gps_bearing(home, current) and gps_distance_2d(current, home) / 100000
C9_HomePublished ==
    [][ (Consumes /\ home_valid) =>
          /\ \E e \in HomeBearingExpected :
                e[1] = home /\ e[2] = gps_data /\ home_bearing' = e[3]
          /\ \E e \in HomeDistanceExpected :
                /\ e[2] = home /\ e[3] = gps_data
                /\ home_distance'.km * 100000 + home_distance'.e5 = e[4]
                /\ home_distance'.e5 \in 0..99999
      ]_vars

\* a rejected step has published a home more than a kilometre away, in a
\* direction that tells the two argument orders apart
C9_Witness ==
    /\ last_call.kind = "rejected"
    /\ last_call.home
    /\ home_distance.km >= 1
    /\ home_bearing = 0

\* C9, the first step: published in the Uninitialized state too
C9_WitnessFirst ==
    /\ last_call.kind = "first"
    /\ last_call.home
    /\ home_distance # KmFromCm(0)

\* points on the axes, the diagonals and the limits of the valid range
BearingLats == {-900000000, -1, 0, 1, 470000000, 900000000}
BearingLons == {-1800000000, -1, 0, 1, 80000000, 1800000000}

\* gps_bearing is in 0..359 on every pair of the points above
BearingInRangeOnGrid ==
    \A lat1 \in BearingLats, lat2 \in BearingLats :
        \A lon1 \in BearingLons, lon2 \in BearingLons :
            gps_bearing(lat1, lon1, lat2, lon2) \in 0..359

\* C10: gps_bearing returns a value in 0..359, so home_bearing is in 0..359
C10_BearingInRange ==
    /\ home_bearing \in 0..359
    /\ BearingInRangeOnGrid

\* a bearing in the western half, where atan2 is negative, was published
C10_Witness ==
    /\ last_call.home
    /\ home_bearing \in 181..359

\* geo holds the value function f returned
Returned(f) == geo.kind = "call" /\ f \in geo.returned

\* C11: gps_bearing(p1, p2) is 0 when p2 is due north of p1, 90 when due
\* east, 180 when due south and 270 when due west
C11_CompassFromPoint1ToPoint2 ==
    Returned("gps_bearing") =>
        /\ (geo.p2.lon = geo.p1.lon /\ geo.p2.lat > geo.p1.lat) => geo.bearing = 0
        /\ (geo.p2.lat = geo.p1.lat /\ geo.p2.lon > geo.p1.lon) => geo.bearing = 90
        /\ (geo.p2.lon = geo.p1.lon /\ geo.p2.lat < geo.p1.lat) => geo.bearing = 180
        /\ (geo.p2.lat = geo.p1.lat /\ geo.p2.lon < geo.p1.lon) => geo.bearing = 270

\* C12: gps_bearing of a point and itself is 0
C12_BearingOfSamePointIsZero ==
    (Returned("gps_bearing") /\ geo.p1.lat = geo.p2.lat /\ geo.p1.lon = geo.p2.lon)
        => geo.bearing = 0

\* gps_bearing has returned for a point of the southern hemisphere and itself
C12_Witness ==
    /\ Returned("gps_bearing")
    /\ geo.p1 = geo.p2
    /\ geo.p1.lat < 0

\* the point is in the valid range: latitude within 90 degrees, longitude
\* within 180 degrees
InValidRange(p) ==
    /\ -90 * GPS_MULT <= p.lat /\ p.lat <= 90 * GPS_MULT
    /\ -180 * GPS_MULT <= p.lon /\ p.lon <= 180 * GPS_MULT

\* C13: for points of the valid range, gps_distance_2d(p1, p2) equals
\* gps_distance_2d(p2, p1)
C13_Distance2dSymmetric ==
    ( /\ Returned("gps_distance_2d") /\ Returned("gps_distance_2d_swapped")
      /\ InValidRange(geo.p1) /\ InValidRange(geo.p2) )
        => geo.d2 = geo.d2_swapped

\* both orders have returned for two points in different degrees of latitude
\* whose longitude difference exceeds int32
C13_Witness ==
    /\ Returned("gps_distance_2d") /\ Returned("gps_distance_2d_swapped")
    /\ InValidRange(geo.p1) /\ InValidRange(geo.p2)
    /\ geo.p1.lon > 0 /\ geo.p2.lon < 0 /\ geo.p1.lon > Max32 + geo.p2.lon
    /\ geo.p1.lat \div GPS_MULT # geo.p2.lat \div GPS_MULT
    /\ geo.d2 > 0

\* C14: gps_distance_2d of a point and itself is 0
C14_Distance2dOfSamePointIsZero ==
    (Returned("gps_distance_2d") /\ geo.p1.lat = geo.p2.lat /\ geo.p1.lon = geo.p2.lon)
        => geo.d2 = 0

\* gps_distance_2d has returned for a point outside the valid range and
\* itself, where the sum of the latitudes overflows
C14_Witness ==
    /\ Returned("gps_distance_2d")
    /\ geo.p1 = geo.p2
    /\ geo.p1 \in GeoPointsOutOfRange

\* C15: for two points of the same latitude and longitude gps_distance_3d
\* is |alt1 - alt2| * 100 cm truncated to an integer, fractions of a metre
\* included, and 0 for equal altitudes
C15_VerticalOnly ==
    (Returned("gps_distance_3d") /\ geo.p1.lat = geo.p2.lat /\ geo.p1.lon = geo.p2.lon)
        => /\ geo.d3 = (Abs(geo.p1.alt - geo.p2.alt) * 100) \div AltScale
           /\ geo.p1.alt = geo.p2.alt => geo.d3 = 0

\* gps_distance_3d has returned for two points one above the other, a
\* fraction of a metre and a fraction of a centimetre apart
C15_Witness ==
    /\ Returned("gps_distance_3d")
    /\ geo.p1.lat = geo.p2.lat /\ geo.p1.lon = geo.p2.lon
    /\ Abs(geo.p1.alt - geo.p2.alt) % AltScale # 0
    /\ (Abs(geo.p1.alt - geo.p2.alt) * 100) % AltScale # 0
    /\ geo.d3 > 0

\* r is trunc(sqrt(dx^2 + dy^2 + da^2)) for the two horizontal distances dx
\* and dy in cm and an altitude difference of dalt / AltScale metres
\* (da = dalt * 100 / AltScale cm):
\*   r^2 * AltScale^2 <= (dx^2 + dy^2) * AltScale^2 + (dalt * 100)^2
\*                    <  (r + 1)^2 * AltScale^2
IsTruncatedNorm(r, dx, dy, dalt) ==
    LET scale == BigSq(ToBig(AltScale))
        sum   == BigAdd(BigMul(BigAdd(BigSq(ToBig(dx)), BigSq(ToBig(dy))), scale),
                        BigSq(BigMulSmall(ToBig(dalt), 100)))
    IN  /\ BigLeq(BigMul(BigSq(ToBig(r)), scale), sum)
        /\ ~BigLeq(BigMul(BigSq(ToBig(r + 1)), scale), sum)

\* C17: gps_distance_3d is trunc(sqrt(dx^2 + dy^2 + da^2)) with
\* dx = gps_distance_2d(lat1, lon1, lat1, lon2),
\* dy = gps_distance_2d(lat1, lon1, lat2, lon1) and da = |alt1 - alt2| * 100;
\* with equal altitudes it equals gps_distance_2d of the two points when they
\* share a latitude or a longitude
C17_Decomposition ==
    Returned("gps_distance_3d") =>
        /\ IsTruncatedNorm(geo.d3,
                gps_distance_2d(geo.ub, geo.p1.lat, geo.p1.lon, geo.p1.lat, geo.p2.lon),
                gps_distance_2d(geo.ub, geo.p1.lat, geo.p1.lon, geo.p2.lat, geo.p1.lon),
                Abs(geo.p1.alt - geo.p2.alt))
        /\ ( /\ Returned("gps_distance_2d")
             /\ geo.p1.alt = geo.p2.alt
             /\ (geo.p1.lat = geo.p2.lat \/ geo.p1.lon = geo.p2.lon) )
              => geo.d3 = geo.d2

\* gps_distance_3d has returned for two points that differ in latitude (by
\* whole degrees), longitude and altitude, and differs from gps_distance_2d
C17_Witness ==
    /\ Returned("gps_distance_3d") /\ Returned("gps_distance_2d")
    /\ geo.p1.lat \div GPS_MULT # geo.p2.lat \div GPS_MULT
    /\ geo.p1.lon # geo.p2.lon
    /\ geo.p1.alt # geo.p2.alt
    /\ geo.d3 # geo.d2

\* C17, the consequence: equal altitudes and a shared latitude, a positive
\* distance
C17_WitnessSharedLatitude ==
    /\ Returned("gps_distance_3d") /\ Returned("gps_distance_2d")
    /\ geo.p1.alt = geo.p2.alt
    /\ geo.p1.lat = geo.p2.lat
    /\ geo.d3 > 0

\* C16: no odometer_step invocation changes config.home or
\* fc.flight.home_valid
C16_HomeOnlyRead ==
    [][ odometer_step => UNCHANGED << home, home_valid >> ]_vars

\* a step has read a valid home and published from it, and home is as set
C16_Witness ==
    /\ last_call.kind \in {"first", "accepted", "rejected"}
    /\ last_call.home
    /\ home_valid
    /\ home \in Homes
    /\ home_distance.km >= 1

\* C18: a step that consumes a sample while home is not valid leaves
\* home_bearing and home_distance as they were, and still clears the flag,
\* runs the odometer logic and stores the sample as the previous position
C18_InvalidHomeKeepsOutputs ==
    [][ (Consumes /\ ~home_valid) =>
          /\ UNCHANGED << home_bearing, home_distance >>
          /\ << last_lat', last_lon', last_alt' >>
               = << gps_data.latitude, gps_data.longtitude, gps_data.altitude >>
          /\ \E ub \in UBOutcomes :
                odometer' = IF /\ last_lat # NO_LAT_DATA
                               /\ FilterAccepts(calc_speed(ub, DistanceFromLast(ub)),
                                                gps_data.groud_speed)
                            THEN odometer + DistanceFromLast(ub)
                            ELSE odometer
      ]_vars

\* a step with home invalid has added a distance to the odometer while the
\* values published earlier persist
C18_Witness ==
    /\ last_call.kind = "accepted"
    /\ ~last_call.home
    /\ last_call.v > 0
    /\ home_distance # KmFromCm(0)

\* C19: a step that consumes a sample clears FC_GPS_NEW_SAMPLE_ODO and
\* leaves every other bit of fc.gps_data.new_sample as it was
C19_OnlyOdoBitCleared ==
    [][ Consumes =>
          /\ FC_GPS_NEW_SAMPLE_ODO \notin new_sample'
          /\ \A b \in NewSampleBits \ {FC_GPS_NEW_SAMPLE_ODO} :
                (b \in new_sample') <=> (b \in new_sample)
      ]_vars

\* a step has just consumed the latest sample and the other consumer's bit
\* is still set
C19_Witness ==
    /\ last_call.kind \in {"first", "accepted", "rejected"}
    /\ consumed = raised
    /\ raised >= 2
    /\ new_sample = {FC_GPS_NEW_SAMPLE_OTHER}

====
